---------------------------- MODULE Spec2Model ----------------------------
(***************************************************************************)
(* Model of scripts/generate_test_data.py: the synthetic earthquake        *)
(* catalogue generator (event synthesis, fault injection, sorting and      *)
(* statistics).                                                            *)
(*                                                                         *)
(* Encoding.  A Python float is an IEEE 754 double, (-1)^neg * m * 2^e     *)
(* with m an unbounded natural, and float arithmetic rounds to nearest,    *)
(* ties to even.  A value the code has passed through round(x, k) is held  *)
(* as the integer n with round(x, k) = n / 10^k: magnitude and depth in    *)
(* tenths, latitude and longitude in 1/10000 degree; a float argument      *)
(* given as a decimal literal is held the same way (ratios in 1/10000) and *)
(* read with Float.  A draw of random() is a number of hundredths u and    *)
(* stands for the float u / 100.  An event is a dict: a function from the  *)
(* field names present to tagged values Num(n), Str(chars), Dict.  A str   *)
(* that can end up in the time field is a sequence of character codes, so  *)
(* that Python's str comparison is modelled code point by code point.      *)
(* A datetime is [day, sec, us]: days since 1970-01-01, second of the day  *)
(* and microsecond.  Every draw from the random stream is a choice from a  *)
(* sample set.                                                             *)
(***************************************************************************)
EXTENDS Integers, Sequences, FiniteSets, TLC

VARIABLES
    pc,               \* position of the running call
    cfg,              \* the arguments of generate_catalogue
    time_range,       \* (end - start).total_seconds(), a float
    invalid_ratio,    \* resolved ratio, a float
    invalid_count,
    invalid_indices,
    i,                \* loop index
    event_time,       \* sampled origin offset of the event in hand, a float of seconds
    event_datetime,   \* start + timedelta(seconds=event_time)
    event,            \* the event in hand
    events,           \* the list built so far
    catalogue,        \* the returned structure
    region_type,      \* argument of a direct generate_focal_mechanism call
    mechanism         \* its result

vars == <<pc, cfg, time_range, invalid_ratio, invalid_count, invalid_indices,
          i, event_time, event_datetime, event, events, catalogue,
          region_type, mechanism>>

None == [tag |-> "none"]
Num(n) == [tag |-> "num", v |-> n]
Str(s) == [tag |-> "str", s |-> s]
Dict == [tag |-> "dict", bad |-> TRUE]

Range(f) == {f[x] : x \in DOMAIN f}

\* ------------------------------------------------------------- str values

Ord ==
    ("0" :> 48) @@ ("1" :> 49) @@ ("2" :> 50) @@ ("3" :> 51) @@ ("4" :> 52) @@
    ("5" :> 53) @@ ("6" :> 54) @@ ("7" :> 55) @@ ("8" :> 56) @@ ("9" :> 57) @@
    ("-" :> 45) @@ ("." :> 46) @@ ("/" :> 47) @@ (":" :> 58) @@ ("T" :> 84) @@
    ("Z" :> 90) @@ ("N" :> 78) @@ ("a" :> 97) @@ ("d" :> 100) @@ ("e" :> 101) @@
    ("i" :> 105) @@ ("l" :> 108) @@ ("n" :> 110) @@ ("o" :> 111) @@
    ("t" :> 116) @@ ("v" :> 118)

Chars(cs) == [k \in 1..Len(cs) |-> Ord[cs[k]]]

RECURSIVE StrLess(_, _)
\* Python's str.__lt__: by code point, a proper prefix first.
StrLess(a, b) ==
    IF b = <<>> THEN FALSE
    ELSE IF a = <<>> THEN TRUE
    ELSE IF Head(a) # Head(b) THEN Head(a) < Head(b)
    ELSE StrLess(Tail(a), Tail(b))

StrLeq(a, b) == ~StrLess(b, a)


\* ---------------------------------------------------- unbounded naturals

\* A natural number of any size: its digits in base 2^15, least significant
\* first, without a leading zero digit.
Base == 32768

Cons(d, s) == IF d = 0 /\ s = <<>> THEN <<>> ELSE <<d>> \o s

RECURSIVE BigOfInt(_)
BigOfInt(n) == IF n = 0 THEN <<>> ELSE Cons(n % Base, BigOfInt(n \div Base))

RECURSIVE BigToInt(_)
BigToInt(a) == IF a = <<>> THEN 0 ELSE Head(a) + Base * BigToInt(Tail(a))

RECURSIVE BigAddC(_, _, _)
BigAddC(a, b, c) ==
    IF a = <<>> /\ b = <<>> THEN BigOfInt(c)
    ELSE LET x == (IF a = <<>> THEN 0 ELSE Head(a)) + (IF b = <<>> THEN 0 ELSE Head(b)) + c
         IN Cons(x % Base, BigAddC(IF a = <<>> THEN <<>> ELSE Tail(a),
                                   IF b = <<>> THEN <<>> ELSE Tail(b), x \div Base))

BigAdd(a, b) == BigAddC(a, b, 0)

RECURSIVE BigSubB(_, _, _)
\* a - b - c for a >= b + c
BigSubB(a, b, c) ==
    IF a = <<>> THEN <<>>
    ELSE LET x == Head(a) - (IF b = <<>> THEN 0 ELSE Head(b)) - c
         IN Cons(x % Base, BigSubB(Tail(a), IF b = <<>> THEN <<>> ELSE Tail(b),
                                   IF x < 0 THEN 1 ELSE 0))

BigSub(a, b) == BigSubB(a, b, 0)

RECURSIVE BigMulSmallC(_, _, _)
\* a * k + c for 0 <= k <= Base
BigMulSmallC(a, k, c) ==
    IF a = <<>> THEN BigOfInt(c)
    ELSE LET x == Head(a) * k + c
         IN Cons(x % Base, BigMulSmallC(Tail(a), k, x \div Base))

BigMulSmall(a, k) == BigMulSmallC(a, k, 0)

RECURSIVE BigMul(_, _)
BigMul(a, b) ==
    IF a = <<>> \/ b = <<>> THEN <<>>
    ELSE BigAdd(BigMulSmall(a, Head(b)), Cons(0, BigMul(a, Tail(b))))

RECURSIVE BigDivMod(_, _)
\* quotient and remainder of a by k, for 0 < k <= Base
BigDivMod(a, k) ==
    IF a = <<>> THEN [q |-> <<>>, r |-> 0]
    ELSE LET hi == BigDivMod(Tail(a), k)
             x == hi.r * Base + Head(a)
         IN [q |-> Cons(x \div k, hi.q), r |-> x % k]

RECURSIVE BigCmpEq(_, _)
\* comparison of two numbers with as many digits: -1, 0 or 1
BigCmpEq(a, b) ==
    IF a = <<>> THEN 0
    ELSE LET hi == BigCmpEq(Tail(a), Tail(b))
         IN IF hi # 0 THEN hi
            ELSE IF Head(a) < Head(b) THEN -1 ELSE IF Head(a) > Head(b) THEN 1 ELSE 0

BigCmp(a, b) ==
    IF Len(a) < Len(b) THEN -1 ELSE IF Len(a) > Len(b) THEN 1 ELSE BigCmpEq(a, b)

RECURSIVE Pow2(_)
Pow2(n) == IF n = 0 THEN 1 ELSE 2 * Pow2(n - 1)

RECURSIVE Pow10(_)
Pow10(n) == IF n = 0 THEN 1 ELSE 10 * Pow10(n - 1)

RECURSIVE IntBits(_)
IntBits(n) == IF n = 0 THEN 0 ELSE 1 + IntBits(n \div 2)

BitLen(a) == IF a = <<>> THEN 0 ELSE 15 * (Len(a) - 1) + IntBits(a[Len(a)])

RECURSIVE ShiftDigits(_, _)
ShiftDigits(a, n) == IF n = 0 \/ a = <<>> THEN a ELSE ShiftDigits(<<0>> \o a, n - 1)

\* a * 2^n
Shl(a, n) == BigMulSmall(ShiftDigits(a, n \div 15), Pow2(n % 15))

\* floor(a / 2^n)
Shr(a, n) ==
    IF n \div 15 >= Len(a) THEN <<>>
    ELSE BigDivMod(SubSeq(a, n \div 15 + 1, Len(a)), Pow2(n % 15)).q

IsOdd(a) == a # <<>> /\ Head(a) % 2 = 1

\* Whether a quotient q is rounded up: c compares the remainder with half the
\* divisor (-1, 0 or 1), and on a tie an odd q goes up.
RoundsUp(q, c, sticky) == c > 0 \/ (c = 0 /\ (sticky \/ IsOdd(q)))

\* q = floor(a / 2^n), rounded to nearest
RoundQuotient(a, n, sticky, q) ==
    IF RoundsUp(q, BigCmp(BigSub(a, Shl(q, n)), Shl(<<1>>, n - 1)), sticky)
    THEN BigAdd(q, <<1>>) ELSE q

\* floor(a / 2^n) rounded to nearest, ties to even; `sticky` says that a stands
\* for a value slightly above a.
ShrRound(a, n, sticky) == IF n = 0 THEN a ELSE RoundQuotient(a, n, sticky, Shr(a, n))

\* ------------------------------------------------------------ Python floats

\* An IEEE 754 double: (-1)^neg * m * 2^e with 2^52 <= m < 2^53; zero has m = 0.
Zero == [neg |-> FALSE, m |-> <<>>, e |-> 0]

\* The double (-1)^neg * q * 2^e of a rounded q <= 2^53: a q that rounding
\* carried to 2^53 is halved.
Normalised(neg, q, e) ==
    IF BitLen(q) > 53 THEN [neg |-> neg, m |-> Shr(q, 1), e |-> e + 1]
    ELSE [neg |-> neg, m |-> q, e |-> e]

\* ToDouble of an M of L bits, L > 0
ToDoubleOfBits(neg, M, e, sticky, L) ==
    IF L <= 53 THEN [neg |-> neg, m |-> Shl(M, 53 - L), e |-> e - (53 - L)]
    ELSE Normalised(neg, ShrRound(M, L - 53, sticky), e + (L - 53))

\* The double nearest to (-1)^neg * M * 2^e (round to nearest, ties to even);
\* `sticky` says that the value lies slightly above M * 2^e in magnitude.
ToDouble(neg, M, e, sticky) ==
    IF M = <<>> THEN Zero ELSE ToDoubleOfBits(neg, M, e, sticky, BitLen(M))

Abs(n) == IF n < 0 THEN -n ELSE n

\* float(n) of an int
FloatOfInt(n) == ToDouble(n < 0, BigOfInt(Abs(n)), 0, FALSE)

\* The double nearest to (-1)^neg * (d.q + d.r / k) * 2^e, for the quotient and
\* remainder d of a division by k.
ToDoubleOfQuotient(neg, d, e) == ToDouble(neg, d.q, e, d.r # 0)

\* The float a decimal literal p / q denotes (q a power of ten up to 10^4): the
\* double nearest to it.
Float(p, q) ==
    ToDoubleOfQuotient(p < 0, BigDivMod(Shl(BigOfInt(Abs(p)), 58 + IntBits(q)), q),
                       -(58 + IntBits(q)))

FNeg(x) == IF x.m = <<>> THEN x ELSE [x EXCEPT !.neg = ~x.neg]

\* x * y
FMul(x, y) ==
    IF x.m = <<>> \/ y.m = <<>> THEN Zero
    ELSE ToDouble(x.neg # y.neg, BigMul(x.m, y.m), x.e + y.e, FALSE)

Lesser(a, b) == IF a < b THEN a ELSE b

\* (-1)^xneg * X * 2^e + (-1)^yneg * Y * 2^e, rounded: the sum of the
\* magnitudes under the common sign, or their difference under the sign of the
\* larger; equal magnitudes of opposite sign give 0.0.
AddAligned(xneg, X, yneg, Y, e) ==
    ToDouble(IF xneg = yneg \/ BigCmp(X, Y) >= 0 THEN xneg ELSE yneg,
             IF xneg = yneg THEN BigAdd(X, Y)
             ELSE IF BigCmp(X, Y) >= 0 THEN BigSub(X, Y) ELSE BigSub(Y, X),
             e, FALSE)

\* x + y
FAdd(x, y) ==
    IF x.m = <<>> THEN y
    ELSE IF y.m = <<>> THEN x
    ELSE AddAligned(x.neg, Shl(x.m, x.e - Lesser(x.e, y.e)),
                    y.neg, Shl(y.m, y.e - Lesser(x.e, y.e)), Lesser(x.e, y.e))

\* x - y
FSub(x, y) == FAdd(x, FNeg(y))

\* x < y
FLess(x, y) ==
    LET magLess(a, b) ==     \* |a| < |b|
            IF b.m = <<>> THEN FALSE
            ELSE IF a.m = <<>> THEN TRUE
            ELSE a.e < b.e \/ (a.e = b.e /\ BigCmp(a.m, b.m) < 0)
    IN IF x.neg /\ ~y.neg THEN TRUE
       ELSE IF ~x.neg /\ y.neg THEN FALSE
       ELSE IF x.neg THEN magLess(y, x) ELSE magLess(x, y)

FLeq(x, y) == ~FLess(y, x)

Signed(neg, a) == IF neg THEN -a ELSE a

\* int(x): truncation toward zero
int(x) ==
    IF x.m = <<>> THEN 0
    ELSE Signed(x.neg, BigToInt(IF x.e >= 0 THEN Shl(x.m, x.e) ELSE Shr(x.m, -x.e)))

\* round(x, ndigits) as the integer n with round(x, ndigits) = n / 10^ndigits:
\* the exact binary value of x rounded to ndigits decimals, ties to even.
round(x, ndigits) ==
    IF x.m = <<>> THEN 0
    ELSE Signed(x.neg,
                BigToInt(IF x.e >= 0 THEN Shl(BigMulSmall(x.m, Pow10(ndigits)), x.e)
                         ELSE ShrRound(BigMulSmall(x.m, Pow10(ndigits)), -x.e, FALSE)))

\* -------------------------------------------------------------- datetime

\* Days since 1970-01-01 of day d of the month mp, counted from March, of the
\* year y that starts in March.
DaysOfMarchYear(y, mp, d) ==
    (y \div 400) * 146097 + (y % 400) * 365 + (y % 400) \div 4 - (y % 400) \div 100
    + (153 * mp + 2) \div 5 + d - 1 - 719468

\* Proleptic Gregorian calendar: date -> days since 1970-01-01.
DaysFromCivil(y0, m, d) == DaysOfMarchYear(IF m <= 2 THEN y0 - 1 ELSE y0, IF m > 2 THEN m - 3 ELSE m + 9, d)

\* The date of day doy of the year y that starts in March, mp its month
\* counted from March.
CivilOfMonth(y, doy, mp) ==
    <<y + (IF mp < 10 THEN 0 ELSE 1), IF mp < 10 THEN mp + 3 ELSE mp - 9,
      doy - (153 * mp + 2) \div 5 + 1>>

\* yoe is the year of the 400-year era, doy the day of that year
CivilOfYear(era, yoe, doy) == CivilOfMonth(yoe + era * 400, doy, (5 * doy + 2) \div 153)

\* doe is the day of the 400-year era
CivilOfEra(era, doe, yoe) ==
    CivilOfYear(era, yoe, doe - (365 * yoe + yoe \div 4 - yoe \div 100))

CivilOfDoe(era, doe) ==
    CivilOfEra(era, doe, (doe - doe \div 1460 + doe \div 36524 - doe \div 146096) \div 365)

\* days since 1970-01-01 -> <<year, month, day>>.
CivilFromDays(days) == CivilOfDoe((days + 719468) \div 146097, (days + 719468) % 146097)

\* datetime.fromisoformat of a date-only string "YYYY-MM-DD", given as <<y, m, d>>.
fromisoformat(date) ==
    [day |-> DaysFromCivil(date[1], date[2], date[3]), sec |-> 0, us |-> 0]

\* A number of seconds and of microseconds normalised to days, seconds of the
\* day and microseconds of the second.
timedelta_normalised(s, us) ==
    [days |-> (s + us \div 1000000) \div 86400,
     seconds |-> (s + us \div 1000000) % 86400,
     microseconds |-> us % 1000000]

Half == Float(5, 10)

\* The leftover of the microseconds rounded to a whole number: to nearest, an
\* exact half toward the even total us0 + leftover.
round_leftover(leftover, us0) ==
    IF us0 % 2 = 1 /\ leftover = Half THEN 1
    ELSE IF us0 % 2 = 1 /\ leftover = FNeg(Half) THEN -1
    ELSE round(leftover, 0)

\* micro is the float 10^6 * (x - whole), us0 its whole part
timedelta_of_micro(whole, micro, us0) ==
    timedelta_normalised(whole, us0 + round_leftover(FSub(micro, FloatOfInt(us0)), us0))

timedelta_of_fraction(whole, micro) == timedelta_of_micro(whole, micro, int(micro))

\* whole is the whole part of x
timedelta_of_whole(x, whole) ==
    timedelta_of_fraction(whole, FMul(FloatOfInt(1000000), FSub(x, FloatOfInt(whole))))

\* timedelta(seconds=x) of a float x, as CPython builds it: the whole seconds
\* of x, then the float product of 10^6 and the fraction split again into whole
\* microseconds and a leftover that is rounded to nearest, an exact half
\* toward the even total; the result normalised to days, seconds, microseconds.
timedelta(x) == timedelta_of_whole(x, int(x))

\* datetime + timedelta
AddDelta(dt, td) ==
    LET us == dt.us + td.microseconds
        s == dt.sec + td.seconds + us \div 1000000
    IN [day |-> dt.day + td.days + s \div 86400, sec |-> s % 86400, us |-> us % 1000000]

\* datetime + timedelta(days=n)
AddDays(dt, n) == AddDelta(dt, [days |-> n, seconds |-> 0, microseconds |-> 0])

\* (b - a).total_seconds() of two datetimes without microseconds: the whole
\* number of seconds, as a float.
total_seconds(a, b) == FloatOfInt((b.day - a.day) * 86400 + (b.sec - a.sec))

Digit(n) == 48 + n
Pad2(n) == <<Digit(n \div 10), Digit(n % 10)>>
Pad3(n) == <<Digit(n \div 100), Digit((n \div 10) % 10), Digit(n % 10)>>

RECURSIVE Decimal(_)
\* str(n) of a positive int
Decimal(n) == IF n < 10 THEN <<Digit(n)>> ELSE Append(Decimal(n \div 10), Digit(n % 10))

\* strftime("%Y") as the C library of this platform prints it: the year in
\* decimal, without zero padding.
FormatYear(y) == Decimal(y)

\* "%Y-%m-%d" of the date <<year, month, day>>
FormatDate(ymd) ==
    FormatYear(ymd[1]) \o Chars(<<"-">>) \o Pad2(ymd[2]) \o Chars(<<"-">>) \o Pad2(ymd[3])

\* dt.strftime("%Y-%m-%dT%H:%M:%S")
FormatSeconds(dt) ==
    FormatDate(CivilFromDays(dt.day))
    \o Chars(<<"T">>) \o Pad2(dt.sec \div 3600) \o Chars(<<":">>)
    \o Pad2((dt.sec \div 60) % 60) \o Chars(<<":">>) \o Pad2(dt.sec % 60)

\* dt.strftime("%Y-%m-%dT%H:%M:%S.%f")[:-3] + "Z": of the six digits of %f the
\* first three are kept.
FormatMillisZ(dt) ==
    FormatSeconds(dt) \o Chars(<<".">>) \o Pad3(dt.us \div 1000) \o Chars(<<"Z">>)

\* dt.strftime("%Y-%m-%dT%H:%M:%SZ")
FormatSecondsZ(dt) == FormatSeconds(dt) \o Chars(<<"Z">>)

\* ------------------------------------------------------- the random stream

\* random.random(), in hundredths: the values the model draws.
RandomSamples == {0, 9, 30, 99}

\* The draws of random() an anomaly injector called alone takes.
AnomalySamples == {0, 30, 70, 99}

\* The float random() returns for the draw u.
random(u) == Float(u, 100)

\* random.randint(a, b): any integer of a..b, both ends included.
RandInt(a, b) == a..b

\* The draws of randint(a, b) the catalogue model takes: both ends and the middle.
RandIntSamples(a, b) == {a, (a + b) \div 2, b}

\* random.choice(seq): the positions it can pick.
ChoiceIndex(seq) == 1..Len(seq)

\* random.uniform(a, b) = a + (b - a) * random(), for random() = u / 100.
uniform(a, b, u) == FAdd(a, FMul(FSub(b, a), random(u)))

\* random.sample(range(n), k): the lists of k distinct elements of 0..n-1.
sample(n, k) ==
    {s \in [1..k -> 0..(n - 1)] : \A a, b \in 1..k : a # b => s[a] # s[b]}

\* ---------------------------------------------------------------- constants

INVALID_RATIO_RANGE == <<6000, 8000>>
CROSS_FIELD_ANOMALY_RATIO == 15

INVALID_CASES ==
    <<"missing_time", "missing_latitude", "missing_longitude", "missing_magnitude",
      "out_of_range_coords", "out_of_range_magnitude", "out_of_range_depth",
      "invalid_timestamp", "invalid_types", "future_timestamp">>

\* ------------------------------------------------------------------ dicts

Put(d, k, v) == [x \in DOMAIN d \cup {k} |-> IF x = k THEN v ELSE d[x]]
Pop(d, k) == [x \in DOMAIN d \ {k} |-> d[x]]
Get(d, k) == IF k \in DOMAIN d THEN d[k] ELSE None

\* ---------------------------------------------------------- fault injection

CoordLatChoices == <<950000, -950000, 1200000>>
CoordLonChoices == <<1900000, -1900000, 2500000>>
MagnitudeChoices == <<115, -40, 120>>
DepthChoices == <<-100, -500, 15000>>
TimestampChoices ==
    <<Chars(<<"n", "o", "t", "-", "a", "-", "d", "a", "t", "e">>),
      Chars(<<"2", "0", "2", "4", "-", "1", "3", "-", "4", "0", "T", "2", "5", ":",
              "6", "1", ":", "0", "0", "Z">>),
      Chars(<<"2", "0", "2", "4", "/", "9", "9", "/", "9", "9">>)>>
TypeFields == <<"latitude", "longitude", "magnitude", "depth", "time">>
TypePlaceholders ==
    <<Str(Chars(<<"i", "n", "v", "a", "l", "i", "d">>)), Str(Chars(<<"N", "a", "N">>)), Dict>>

\* Faulty variant of OutOfRangeCoords: the longitude is left as it was.
OutOfRangeCoords_latitude_only(ev, c1, c2) == Put(ev, "latitude", Num(CoordLatChoices[c1]))

\* The out_of_range_coords branch (lines 52-53): both coordinates are overwritten.
OutOfRangeCoords(ev, c1, c2) ==
    Put(Put(ev, "latitude", Num(CoordLatChoices[c1])), "longitude", Num(CoordLonChoices[c2]))

\* introduce_invalid_event(event, event_datetime).  d holds the draws: d.case the
\* position random.choice(INVALID_CASES) picks, d.c1 and d.c2 the positions the
\* branch's first and second random.choice pick, d.days the randint(365, 3650).
introduce_invalid_event(ev, dt, d) ==
    LET case == INVALID_CASES[d.case]
        mutated ==
            CASE case = "missing_time" -> Pop(ev, "time")
              [] case = "missing_latitude" -> Pop(ev, "latitude")
              [] case = "missing_longitude" -> Pop(ev, "longitude")
              [] case = "missing_magnitude" -> Pop(ev, "magnitude")
              [] case = "out_of_range_coords" -> OutOfRangeCoords(ev, d.c1, d.c2)
              [] case = "out_of_range_magnitude" ->
                    Put(ev, "magnitude", Num(MagnitudeChoices[d.c1]))
              [] case = "out_of_range_depth" -> Put(ev, "depth", Num(DepthChoices[d.c1]))
              [] case = "invalid_timestamp" -> Put(ev, "time", Str(TimestampChoices[d.c1]))
              [] case = "invalid_types" -> Put(ev, TypeFields[d.c1], TypePlaceholders[d.c2])
              [] case = "future_timestamp" ->
                    Put(ev, "time", Str(FormatMillisZ(AddDays(dt, d.days))))
              [] OTHER -> ev
    IN Put(mutated, "validation_note", <<"invalid", case>>)

\* The draws one call of introduce_invalid_event consumes, by case; a draw the
\* branch does not make is 0.
InvalidDrawsOf(k, days) ==
    LET case == INVALID_CASES[k]
    IN CASE case = "out_of_range_coords" ->
              {[case |-> k, c1 |-> a, c2 |-> b, days |-> 0] :
                  a \in ChoiceIndex(CoordLatChoices), b \in ChoiceIndex(CoordLonChoices)}
         [] case = "out_of_range_magnitude" ->
              {[case |-> k, c1 |-> a, c2 |-> 0, days |-> 0] : a \in ChoiceIndex(MagnitudeChoices)}
         [] case = "out_of_range_depth" ->
              {[case |-> k, c1 |-> a, c2 |-> 0, days |-> 0] : a \in ChoiceIndex(DepthChoices)}
         [] case = "invalid_timestamp" ->
              {[case |-> k, c1 |-> a, c2 |-> 0, days |-> 0] : a \in ChoiceIndex(TimestampChoices)}
         [] case = "invalid_types" ->
              {[case |-> k, c1 |-> a, c2 |-> b, days |-> 0] :
                  a \in ChoiceIndex(TypeFields), b \in ChoiceIndex(TypePlaceholders)}
         [] case = "future_timestamp" ->
              {[case |-> k, c1 |-> 0, c2 |-> 0, days |-> n] : n \in days}
         [] OTHER -> {[case |-> k, c1 |-> 0, c2 |-> 0, days |-> 0]}

\* round(random.uniform(0.1, 4.9), 1) (line 78), in tenths
AnomalyDepth(u) == round(uniform(Float(1, 10), Float(49, 10), u), 1)

\* round(random.uniform(8.1, 9.6), 1) (line 79), in tenths
AnomalyMagnitude(u) == round(uniform(Float(81, 10), Float(96, 10), u), 1)

\* The two values for every draw, computed once.
AnomalyValues ==
    [u \in 0..99 |-> [depth |-> AnomalyDepth(u), magnitude |-> AnomalyMagnitude(u)]]

\* Faulty variant of introduce_cross_field_anomaly: the two ranges swapped.
introduce_cross_field_anomaly_swapped(ev, u1, u2) ==
    Put(Put(Put(ev, "depth", Num(AnomalyValues[u1].magnitude)),
            "magnitude", Num(AnomalyValues[u2].depth)),
        "validation_note", <<"anomaly", "shallow_large_magnitude">>)

\* introduce_cross_field_anomaly(event); u1 and u2 are its two random() draws.
introduce_cross_field_anomaly(ev, u1, u2) ==
    Put(Put(Put(ev, "depth", Num(AnomalyValues[u1].depth)),
            "magnitude", Num(AnomalyValues[u2].magnitude)),
        "validation_note", <<"anomaly", "shallow_large_magnitude">>)

\* ------------------------------------------------------------------ samplers

\* The float u ** (1 / b_value) as the C library computes it, for the
\* b_value = 2.5 every call passes and the sampled u: 0.0, 0.3816778909618176,
\* 0.6178008505674119 and 0.9959879355809816.
PowInvB(u, b_value) ==
    CASE b_value = 25 /\ u = 0 -> Zero
      [] b_value = 25 /\ u = 9 -> [neg |-> FALSE, m |-> <<25210, 13732, 13732, 195>>, e |-> -54]
      [] b_value = 25 /\ u = 30 -> [neg |-> FALSE, m |-> <<6327, 5160, 5145, 158>>, e |-> -53]
      [] b_value = 25 /\ u = 99 -> [neg |-> FALSE, m |-> <<31973, 11937, 31880, 254>>, e |-> -53]

\* gutenberg_richter_magnitude(min_mag, max_mag, b_value), arguments and result
\* in tenths; u is random().
gutenberg_richter_magnitude(min_mag, max_mag, b_value, u) ==
    round(FAdd(Float(min_mag, 10),
               FMul(FSub(Float(max_mag, 10), Float(min_mag, 10)),
                    FSub(FloatOfInt(1), PowInvB(u, b_value)))), 1)

\* generate_focal_mechanism(region_type); d holds the randint results: d.strike,
\* d.dip, d.rake, and for strike_slip the two candidates d.rake and d.rake2 with
\* d.pick the position random.choice takes.
generate_focal_mechanism(rt, d) ==
    LET rake == IF rt = "strike_slip" THEN <<d.rake, d.rake2>>[d.pick] ELSE d.rake
    IN [nodalPlane1 |-> [strike |-> d.strike, dip |-> d.dip, rake |-> rake],
        nodalPlane2 |-> [strike |-> (d.strike + 180) % 360, dip |-> d.dip, rake |-> -rake]]

\* The randint calls of generate_focal_mechanism by regime: strike from the
\* given draws of randint(0, 360); dip and rake from the ends and middle of the
\* regime's ranges, or with `low` from their lower end alone.
FocalDraws(rt, strikes, low) ==
    LET ri(a, b) == IF low THEN {a} ELSE RandIntSamples(a, b)
    IN
    CASE rt = "subduction" ->
            {[strike |-> s, dip |-> dp, rake |-> r, rake2 |-> 0, pick |-> 0] :
                s \in strikes, dp \in ri(20, 50), r \in ri(70, 110)}
      [] rt = "strike_slip" ->
            {[strike |-> s, dip |-> dp, rake |-> r, rake2 |-> r2, pick |-> p] :
                s \in strikes, dp \in ri(70, 90), r \in ri(-20, 20),
                r2 \in ri(160, 200), p \in 1..2}
      [] OTHER ->
            {[strike |-> s, dip |-> dp, rake |-> r, rake2 |-> 0, pick |-> 0] :
                s \in strikes, dp \in ri(40, 70), r \in ri(-110, -70)}

\* generate_depth(region_type, magnitude), in tenths of a km; u is random().
generate_depth(rt, magnitude, u) ==
    IF rt = "shallow"
    THEN IF magnitude < 40 THEN round(uniform(FloatOfInt(5), FloatOfInt(25), u), 1)
         ELSE round(uniform(FloatOfInt(10), FloatOfInt(40), u), 1)
    ELSE IF rt = "intermediate" THEN round(uniform(FloatOfInt(20), FloatOfInt(150), u), 1)
    ELSE round(uniform(FloatOfInt(100), FloatOfInt(600), u), 1)

\* ------------------------------------------------------- generate_catalogue

\* The largest num_events the model calls generate_catalogue with.
NumEventsMax == 2

NorthIslandBounds ==
    [minLatitude |-> -415000, maxLatitude |-> -340000,
     minLongitude |-> 1720000, maxLongitude |-> 1790000]

\* The calls the model makes: the script's North Island arguments, with the event
\* count, the time window and the fault-injection parameters varied.
Configs ==
    {[name |-> "North Island Seismic Events",
      region |-> "New Zealand - North Island",
      bounds |-> NorthIslandBounds,
      num_events |-> n,
      start_date |-> <<2024, 1, 1>>,
      end_date |-> <<2024, 1, 3>>,
      tectonic_type |-> "subduction",
      depth_type |-> "shallow",
      invalid_ratio |-> r,
      invalid_ratio_range |-> INVALID_RATIO_RANGE,
      anomaly_ratio |-> CROSS_FIELD_ANOMALY_RATIO] :
        n \in 0..NumEventsMax, r \in {None, Num(-5000), Num(5000), Num(15000)}}

\* The draws of the random stream the catalogue model takes at each call site.
RatioU == {99}
MagnitudeU == {9, 30}
ClusterU == {0, 30}
ClusterTimeU == {25}
PerturbU == {0, 75}
EventTimeU == {50}
LocationU == {50}
DepthU == {50}
AnomalyU == {0, 30}
AnomalyValueU == {0}
StrikeDraws == {360}
FutureDays == {365}
CatalogueInvalidDraws ==
    UNION {{d \in InvalidDrawsOf(k, FutureDays) :
                IF INVALID_CASES[k] = "invalid_types"
                THEN d.c1 \in {3, 5} /\ d.c2 \in {2, 3}
                ELSE d.c1 <= 1 /\ d.c2 <= 1} : k \in ChoiceIndex(INVALID_CASES)}

\* region.lower().replace(' ', '_') for the regions the script passes.
RegionSlug(region) ==
    CASE region = "New Zealand - North Island" -> "new_zealand_-_north_island"
      [] region = "New Zealand - South Island" -> "new_zealand_-_south_island"
      [] region = "New Zealand - Deep Events" -> "new_zealand_-_deep_events"


\* datetime.fromisoformat(start_date), datetime.fromisoformat(end_date)
StartOf(c) == fromisoformat(c.start_date)
EndOf(c) == fromisoformat(c.end_date)

start == StartOf(cfg)
end == EndOf(cfg)

\* min(a, b) and max(a, b) of two numbers: the first, unless the second is
\* smaller (larger).
min(a, b) == IF FLess(b, a) THEN b ELSE a
max(a, b) == IF FLess(a, b) THEN b ELSE a

\* max(0, min(1, invalid_ratio))
Clamp(r) == max(Zero, min(FloatOfInt(1), r))

\* int(num_events * invalid_ratio): the float product, truncated
InvalidCount(n, r) == int(FMul(FloatOfInt(n), r))

\* Lines 161-163 for the call c, with u the draw of random.uniform.
ResolveRatio(c, u) ==
    Clamp(IF c.invalid_ratio = None
          THEN uniform(Float(c.invalid_ratio_range[1], 10000),
                       Float(c.invalid_ratio_range[2], 10000), u)
          ELSE Float(c.invalid_ratio.v, 10000))

Init ==
    /\ pc = "call"
    /\ cfg \in Configs
    /\ time_range = Zero
    /\ invalid_ratio = None
    /\ invalid_count = 0
    /\ invalid_indices = {}
    /\ i = 0
    /\ event_time = Zero
    /\ event_datetime = start
    /\ event = <<>>
    /\ events = <<>>
    /\ catalogue = None
    /\ region_type = "none"
    /\ mechanism = None

\* Lines 156-165: parse the window, resolve and clamp the ratio, pick the indices.
Begin ==
    /\ pc = "call"
    /\ \E u \in RatioU :
         /\ invalid_ratio' = ResolveRatio(cfg, u)
         /\ invalid_count' = InvalidCount(cfg.num_events, invalid_ratio')
         /\ \E s \in sample(cfg.num_events, invalid_count') : invalid_indices' = Range(s)
    /\ time_range' = total_seconds(start, end)
    /\ i' = 0
    /\ events' = <<>>
    /\ pc' = IF cfg.num_events > 0 THEN "synthesize" ELSE "finish"
    /\ UNCHANGED <<cfg, event_time, event_datetime, event, catalogue, region_type, mechanism>>

\* Faulty variant of HasFocalMechanism: a strict comparison.
HasFocalMechanism_strict(magnitude) == magnitude > 50

\* if magnitude >= 5.0 (line 201)
HasFocalMechanism(magnitude) == magnitude >= 50

\* Lines 201-202: the focal mechanism is added for a magnitude of 5.0 or more.
WithFocalMechanism(ev, magnitude, fm) ==
    IF HasFocalMechanism(magnitude) THEN Put(ev, "focal_mechanisms", <<fm>>) ELSE ev

\* Lines 191-202: the event record, with its focal mechanism when there is one.
MakeEvent(c, idx, dt, lat, lon, depth, magnitude, fm) ==
    WithFocalMechanism(
        [publicID |-> <<RegionSlug(c.region), CivilFromDays(StartOf(c).day)[1], idx + 1>>,
         time |-> Str(FormatMillisZ(dt)),
         latitude |-> Num(lat),
         longitude |-> Num(lon),
         depth |-> Num(depth),
         magnitude |-> Num(magnitude)], magnitude, fm)

\* event_time of the clustered branch (lines 175-177); tr is time_range.
ClusteredTime(tr, uc, up) ==
    FAdd(uniform(Zero, tr, uc), uniform(FloatOfInt(-86400), FloatOfInt(86400), up))

\* event_time of the other branch (line 179)
UniformTime(tr, u) == uniform(Zero, tr, u)

\* Lines 173-179: the clustered branch is taken when random() < 0.3.
EventTime(tr, d) ==
    IF d.ub < 30 THEN ClusteredTime(tr, d.uc, d.up) ELSE UniformTime(tr, d.ut)

\* Lines 184-202: location, depth, focal mechanism and the record, for the
\* magnitude, event_time and event_datetime sampled before.
synthesize_on(c, idx, d, fd, magnitude, t, dt) ==
    [event_time |-> t, event_datetime |-> dt,
     event |-> MakeEvent(c, idx, dt,
                         round(uniform(Float(c.bounds.minLatitude, 10000),
                                       Float(c.bounds.maxLatitude, 10000), d.ulat), 4),
                         round(uniform(Float(c.bounds.minLongitude, 10000),
                                       Float(c.bounds.maxLongitude, 10000), d.ulon), 4),
                         generate_depth(c.depth_type, magnitude, d.ud), magnitude,
                         generate_focal_mechanism(c.tectonic_type, fd))]

\* Line 181: event_datetime = start + timedelta(seconds=event_time)
synthesize_at(c, idx, d, fd, magnitude, t) ==
    synthesize_on(c, idx, d, fd, magnitude, t, AddDelta(StartOf(c), timedelta(t)))

\* Lines 168-202 of the loop iteration idx of the call c: d holds the draws of
\* random(), fd the randint results of generate_focal_mechanism.
synthesize(c, idx, d, fd) ==
    synthesize_at(c, idx, d, fd, gutenberg_richter_magnitude(10, 75, 25, d.um),
                  EventTime(total_seconds(StartOf(c), EndOf(c)), d))

\* The draws of random() one loop iteration of the catalogue model takes.
SynthesizeDraws ==
    [um : MagnitudeU, ub : ClusterU, uc : ClusterTimeU, up : PerturbU, ut : EventTimeU,
     ulat : LocationU, ulon : LocationU, ud : DepthU]

\* synthesize for the calls and draws of the catalogue model, computed once.
Synthesized ==
    [k \in UNION {{<<c, idx, d, fd>> : idx \in 0..(NumEventsMax - 1), d \in SynthesizeDraws,
                                       fd \in FocalDraws(c.tectonic_type, StrikeDraws, TRUE)} :
                  c \in Configs} |->
        synthesize(k[1], k[2], k[3], k[4])]

\* Lines 168-202 of one loop iteration: sample and build the event.
Synthesize ==
    /\ pc = "synthesize"
    /\ \E d \in SynthesizeDraws, fd \in FocalDraws(cfg.tectonic_type, StrikeDraws, TRUE) :
         \E s \in {IF <<cfg, i, d, fd>> \in DOMAIN Synthesized
                   THEN Synthesized[<<cfg, i, d, fd>>] ELSE synthesize(cfg, i, d, fd)} :
            /\ event_time' = s.event_time
            /\ event_datetime' = s.event_datetime
            /\ event' = s.event
    /\ pc' = "inject"
    /\ UNCHANGED <<cfg, time_range, invalid_ratio, invalid_count, invalid_indices, i,
                   events, catalogue, region_type, mechanism>>

\* if i in invalid_indices (line 203)
SelectedInvalid(idx, indices) == idx \in indices

\* Faulty variant of InjectFaults: `if` for `elif`, so that a selected event can take
\* the anomaly as well.
InjectFaults_both(idx, ev, dt, d, ua, u1, u2) ==
    IF ua < cfg.anomaly_ratio
    THEN introduce_cross_field_anomaly(IF SelectedInvalid(idx, invalid_indices)
                                       THEN introduce_invalid_event(ev, dt, d) ELSE ev, u1, u2)
    ELSE IF SelectedInvalid(idx, invalid_indices) THEN introduce_invalid_event(ev, dt, d)
    ELSE ev

\* Lines 203-206: the invalid-case injector for a selected index, else the
\* anomaly injector when random() = ua / 100 is below the anomaly ratio.
InjectFaults(idx, ev, dt, d, ua, u1, u2) ==
    IF SelectedInvalid(idx, invalid_indices)
    THEN introduce_invalid_event(ev, dt, d)
    ELSE IF ua < cfg.anomaly_ratio
    THEN introduce_cross_field_anomaly(ev, u1, u2)
    ELSE ev

\* Lines 203-208: fault injection and append.
Inject ==
    /\ pc = "inject"
    /\ \E d \in CatalogueInvalidDraws, ua \in AnomalyU, u1 \in AnomalyValueU, u2 \in AnomalyValueU :
         /\ event' = InjectFaults(i, event, event_datetime, d, ua, u1, u2)
         /\ events' = Append(events, event')
    /\ i' = i + 1
    /\ pc' = IF i + 1 < cfg.num_events THEN "synthesize" ELSE "finish"
    /\ UNCHANGED <<cfg, time_range, invalid_ratio, invalid_count, invalid_indices,
                   event_time, event_datetime, catalogue, region_type, mechanism>>

\* bool(v) of a field value: None, "" and {} are falsy.
Truthy(v) ==
    CASE v.tag = "none" -> FALSE
      [] v.tag = "str" -> v.s # <<>>
      [] v.tag = "num" -> v.v # 0
      [] OTHER -> TRUE

\* The sort key of line 211: x.get("time") or ""
SortKey(e) == IF Truthy(Get(e, "time")) THEN Get(e, "time") ELSE Str(<<>>)

\* k1 < k2 as list.sort evaluates it; both are str when this is used.
KeyLess(k1, k2) == StrLess(k1.s, k2.s)

\* Whether k1 < k2 can be evaluated: '<' between a dict and a str, or between
\* two dicts, raises TypeError.
Comparable(k1, k2) == k1.tag = "str" /\ k2.tag = "str"

RECURSIVE count_run(_, _, _)
\* count_run of list.sort: the run that starts the list, known to reach
\* position k, is extended while each element is not less than the one before
\* it or, for a descending run, less than it; a comparison may raise.
count_run(evs, k, descending) ==
    IF k = Len(evs) THEN [n |-> k, descending |-> descending, raised |-> FALSE]
    ELSE IF ~Comparable(SortKey(evs[k + 1]), SortKey(evs[k]))
    THEN [n |-> k, descending |-> descending, raised |-> TRUE]
    ELSE IF KeyLess(SortKey(evs[k + 1]), SortKey(evs[k])) = descending
    THEN count_run(evs, k + 1, descending)
    ELSE [n |-> k, descending |-> descending, raised |-> FALSE]

RECURSIVE binary_search(_, _, _, _)
\* The search of binarysort for the place of pivot among evs[l..r-1]: the
\* position after every element whose key is not greater, or 0 when a
\* comparison raises.
binary_search(evs, pivot, l, r) ==
    IF l >= r THEN l
    ELSE IF ~Comparable(SortKey(pivot), SortKey(evs[l + (r - l) \div 2])) THEN 0
    ELSE IF KeyLess(SortKey(pivot), SortKey(evs[l + (r - l) \div 2]))
    THEN binary_search(evs, pivot, l, l + (r - l) \div 2)
    ELSE binary_search(evs, pivot, l + (r - l) \div 2 + 1, r)

\* evs with the element at k + 1 moved to pos <= k + 1
MoveTo(evs, k, pos) ==
    SubSeq(evs, 1, pos - 1) \o <<evs[k + 1]>> \o SubSeq(evs, pos, k)
    \o SubSeq(evs, k + 2, Len(evs))

RECURSIVE binarysort(_, _)
\* binarysort of list.sort: evs[1..k] is sorted, the elements after it are
\* inserted one by one; when a comparison raises the list is left as it is.
binarysort(evs, k) ==
    IF k = Len(evs) THEN [list |-> evs, raised |-> FALSE]
    ELSE IF binary_search(evs, evs[k + 1], 1, k + 1) = 0 THEN [list |-> evs, raised |-> TRUE]
    ELSE binarysort(MoveTo(evs, k, binary_search(evs, evs[k + 1], 1, k + 1)), k + 1)

Reverse(s) == [k \in 1..Len(s) |-> s[Len(s) + 1 - k]]

\* The sort once the first run is counted: a descending run is reversed in
\* place, then the rest is inserted.
sort_after_run(evs, run) ==
    IF run.raised THEN [list |-> evs, raised |-> TRUE]
    ELSE binarysort(IF run.descending
                    THEN Reverse(SubSeq(evs, 1, run.n)) \o SubSeq(evs, run.n + 1, Len(evs))
                    ELSE evs, run.n)

\* events.sort(key=...) as CPython 3.11 runs it on a list shorter than 64:
\* the first run is counted, reversed if it descends, and the rest inserted by
\* binarysort.  `list` is the list the call leaves, sorted and stable when no
\* comparison raised and partly sorted when one did.
list_sort(evs) ==
    IF Len(evs) < 2 THEN [list |-> evs, raised |-> FALSE]
    ELSE IF ~Comparable(SortKey(evs[2]), SortKey(evs[1])) THEN [list |-> evs, raised |-> TRUE]
    ELSE sort_after_run(evs, count_run(evs, 2, KeyLess(SortKey(evs[2]), SortKey(evs[1]))))

\* Whether events.sort raises TypeError.
SortRaises(evs) == list_sort(evs).raised

\* Faulty variant of SortByTime: the list is left in the order it was built.
SortByTime_unsorted(evs) == evs

\* The list events.sort(key=...) leaves.
SortByTime(evs) == list_sort(evs).list

\* isinstance(e.get("magnitude"), (int, float))
IsNumeric(v) == v.tag = "num"

\* Faulty variant of NumericMagnitudes: a missing or non-numeric magnitude counts as 0.
NumericMagnitudes_defaulted(evs) ==
    {IF IsNumeric(Get(evs[k], "magnitude")) THEN evs[k].magnitude.v ELSE 0 : k \in 1..Len(evs)}

\* Lines 213-216
NumericMagnitudes(evs) ==
    {evs[k].magnitude.v : k \in {j \in 1..Len(evs) : IsNumeric(Get(evs[j], "magnitude"))}}

Min(S) == CHOOSE x \in S : \A y \in S : x <= y
Max(S) == CHOOSE x \in S : \A y \in S : x >= y

\* Lines 217-220
MagnitudeRange(evs) ==
    LET ms == NumericMagnitudes(evs)
    IN [min |-> IF ms # {} THEN Num(Min(ms)) ELSE None,
        max |-> IF ms # {} THEN Num(Max(ms)) ELSE None]

\* Lines 222-239
MakeCatalogue(evs) ==
    [catalogue_name |-> cfg.name,
     region |-> cfg.region,
     description |-> <<"Realistic earthquake catalogue for", cfg.region, "with",
                       cfg.num_events, "events">>,
     geographic_bounds |-> cfg.bounds,
     time_range |-> [start |-> FormatSecondsZ(start), end |-> FormatSecondsZ(end)],
     statistics |->
        [total_events |-> cfg.num_events,
         invalid_events |-> invalid_count,
         invalid_ratio |-> round(invalid_ratio, 2),
         events_with_focal_mechanisms |->
            Cardinality({k \in 1..Len(evs) : "focal_mechanisms" \in DOMAIN evs[k]}),
         magnitude_range |-> MagnitudeRange(evs)],
     events |-> evs]

\* Lines 210-241: sort, statistics, return; or the TypeError of the sort, which
\* leaves the list as far as the sort had come.
Finish ==
    /\ pc = "finish"
    /\ events' = SortByTime(events)
    /\ \/ /\ SortRaises(events)
          /\ pc' = "raised"
          /\ UNCHANGED catalogue
       \/ /\ ~SortRaises(events)
          /\ catalogue' = MakeCatalogue(events')
          /\ pc' = "returned"
    /\ UNCHANGED <<cfg, time_range, invalid_ratio, invalid_count, invalid_indices, i,
                   event_time, event_datetime, event, region_type, mechanism>>

Next == Begin \/ Synthesize \/ Inject \/ Finish

Spec == Init /\ [][Next]_vars

\* ------------------------------------- generate_focal_mechanism, called alone

RegionTags == {"subduction", "strike_slip", "normal", "transform"}

ScriptConfig ==
    CHOOSE c \in Configs : c.num_events = NumEventsMax /\ c.invalid_ratio = None

InitFM ==
    /\ pc = "focal_call"
    /\ region_type \in RegionTags
    /\ mechanism = None
    /\ cfg = ScriptConfig
    /\ time_range = Zero
    /\ invalid_ratio = None
    /\ invalid_count = 0
    /\ invalid_indices = {}
    /\ i = 0
    /\ event_time = Zero
    /\ event_datetime = start
    /\ event = <<>>
    /\ events = <<>>
    /\ catalogue = None

\* One call generate_focal_mechanism(region_type): strike over the whole of
\* randint(0, 360), dip and rake over the ends and middle of their ranges.
CallFocalMechanism ==
    /\ pc = "focal_call"
    /\ \E d \in FocalDraws(region_type, RandInt(0, 360), FALSE) :
         mechanism' = generate_focal_mechanism(region_type, d)
    /\ pc' = "focal_returned"
    /\ UNCHANGED <<cfg, time_range, invalid_ratio, invalid_count, invalid_indices, i,
                   event_time, event_datetime, event, events, catalogue, region_type>>

NextFM == CallFocalMechanism

SpecFM == InitFM /\ [][NextFM]_vars

\* ------------------------------------------- the injectors, called alone

\* Well-formed events as the synthesizer builds them (lines 168-202), over every
\* sampled magnitude, offset, location and depth.
InitInj ==
    /\ pc = "injector_call"
    /\ cfg = ScriptConfig
    /\ time_range = total_seconds(start, end)
    /\ i \in 0..1
    /\ \E d \in [um : RandomSamples, ub : ClusterU, uc : ClusterTimeU, up : PerturbU,
                 ut : EventTimeU, ulat : {0, 99}, ulon : {0, 99}, ud : {0, 99}],
          fd \in FocalDraws(cfg.tectonic_type, {0, 360}, TRUE) :
         \E s \in {synthesize(cfg, i, d, fd)} :
            /\ event_time = s.event_time
            /\ event_datetime = s.event_datetime
            /\ event = s.event
    /\ invalid_ratio = None
    /\ invalid_count = 0
    /\ invalid_indices = {}
    /\ events = <<>>
    /\ catalogue = None
    /\ region_type = "none"
    /\ mechanism = None

\* One call introduce_invalid_event(event, event_datetime), over every draw.
CallIntroduceInvalid ==
    /\ pc = "injector_call"
    /\ \E k \in ChoiceIndex(INVALID_CASES) :
         \E d \in InvalidDrawsOf(k, RandIntSamples(365, 3650)) :
            event' = introduce_invalid_event(event, event_datetime, d)
    /\ pc' = "invalid_returned"
    /\ UNCHANGED <<cfg, time_range, invalid_ratio, invalid_count, invalid_indices, i,
                   event_time, event_datetime, events, catalogue, region_type, mechanism>>

\* One call introduce_cross_field_anomaly(event), over every sampled draw.
CallIntroduceAnomaly ==
    /\ pc = "injector_call"
    /\ \E u1 \in AnomalySamples, u2 \in AnomalySamples :
         event' = introduce_cross_field_anomaly(event, u1, u2)
    /\ pc' = "anomaly_returned"
    /\ UNCHANGED <<cfg, time_range, invalid_ratio, invalid_count, invalid_indices, i,
                   event_time, event_datetime, events, catalogue, region_type, mechanism>>

NextInj == CallIntroduceInvalid \/ CallIntroduceAnomaly

SpecInj == InitInj /\ [][NextInj]_vars

\* ------------------------------------- the ratio resolution, called alone

\* The event counts and the ratios generate_catalogue is given.
RatioEventCounts == {0, 1, 2, 5, 10, 50, 90, 100}
GivenRatios ==
    {Num(-5000), Num(0), Num(2900), Num(5000), Num(5700), Num(5800), Num(7000),
     Num(10000), Num(15000)}

InitRatio ==
    /\ pc = "ratio_call"
    /\ cfg \in {[ScriptConfig EXCEPT !.num_events = n, !.invalid_ratio = r] :
                    n \in RatioEventCounts, r \in GivenRatios}
    /\ time_range = Zero
    /\ invalid_ratio = None
    /\ invalid_count = 0
    /\ invalid_indices = {}
    /\ i = 0
    /\ event_time = Zero
    /\ event_datetime = start
    /\ event = <<>>
    /\ events = <<>>
    /\ catalogue = None
    /\ region_type = "none"
    /\ mechanism = None

\* Two of the lists random.sample(range(n), k) can return: the first k indices
\* in order and the last k in reverse.
SampleEnds(n, k) == {[j \in 1..k |-> j - 1], [j \in 1..k |-> n - j]}

\* Lines 161-165 of one call: resolve and clamp the ratio, count and pick the
\* invalid indices.
CallResolveRatio ==
    /\ pc = "ratio_call"
    /\ \E u \in RatioU :
         /\ invalid_ratio' = ResolveRatio(cfg, u)
         /\ invalid_count' = InvalidCount(cfg.num_events, invalid_ratio')
         /\ \E s \in SampleEnds(cfg.num_events, invalid_count') : invalid_indices' = Range(s)
    /\ pc' = "ratio_resolved"
    /\ UNCHANGED <<cfg, time_range, i, event_time, event_datetime, event, events, catalogue,
                   region_type, mechanism>>

NextRatio == CallResolveRatio

SpecRatio == InitRatio /\ [][NextRatio]_vars

\* ------------------------------------------------------------ properties

IsInvalidNoted(e) == "validation_note" \in DOMAIN e /\ e.validation_note[1] = "invalid"
IsAnomalyNoted(e) == "validation_note" \in DOMAIN e /\ e.validation_note[1] = "anomaly"
\* The loop index an event was built at, from the sequence number of its publicID.
IndexOf(e) == e.publicID[3] - 1
\* The ratio v (in 1/10000) a caller gave, clamped to [0, 1].
GivenClamped(v) == IF v < 0 THEN 0 ELSE IF v > 10000 THEN 10000 ELSE v
\* floor(N * r) for the call c and its resolved ratio: of the ratio the caller
\* gave, clamped, or of the value of the float r drawn from the range.
FloorOfProduct(c, r) ==
    IF c.invalid_ratio = None THEN BigToInt(Shr(BigMulSmall(r.m, c.num_events), -r.e))
    ELSE (c.num_events * GivenClamped(c.invalid_ratio.v)) \div 10000
RequiredFields == {"publicID", "time", "latitude", "longitude", "depth", "magnitude"}

\* C1: once the ratio is resolved (the given one clamped to [0,1], or one drawn
\* from the range), the invalid index set holds floor(N*r) distinct indices of
\* 0..N-1; and in the returned catalogue exactly floor(N*r) events carry an
\* "invalid:" note, which is what statistics.invalid_events reports.
C1_InvalidCountIsFloor ==
    pc \in {"ratio_resolved", "synthesize", "inject", "finish", "returned", "raised"} =>
        /\ FLeq(Zero, invalid_ratio) /\ FLeq(invalid_ratio, FloatOfInt(1))
        /\ invalid_indices \subseteq 0..(cfg.num_events - 1)
        /\ Cardinality(invalid_indices) = FloorOfProduct(cfg, invalid_ratio)
        /\ pc = "returned" =>
             /\ Cardinality({k \in 1..Len(catalogue.events) :
                                 IsInvalidNoted(catalogue.events[k])})
                    = FloorOfProduct(cfg, invalid_ratio)
             /\ catalogue.statistics.invalid_events = FloorOfProduct(cfg, invalid_ratio)
             /\ Len(catalogue.events) = cfg.num_events

\* C2: every call of generate_catalogue returns: neither the sort by time nor
\* the statistics raise, whatever the fault injection did to the events.
C2_AlwaysReturns == pc # "raised"

\* C3: an event whose index is in the invalid set carries "invalid:<case>" for
\* one of the ten cases and was not touched by the anomaly injector; any other
\* event carries no note or "anomaly:shallow_large_magnitude", and then only
\* its depth and magnitude were overwritten.
C3_InvalidXorAnomaly ==
    \A k \in 1..Len(events) :
        LET e == events[k]
        IN IF IndexOf(e) \in invalid_indices
           THEN /\ IsInvalidNoted(e)
                /\ e.validation_note[2] \in Range(INVALID_CASES)
                /\ Get(e, "depth").tag = "num" => Get(e, "depth").v \notin 1..49
           ELSE /\ RequiredFields \subseteq DOMAIN e
                /\ "validation_note" \in DOMAIN e =>
                     /\ e.validation_note = <<"anomaly", "shallow_large_magnitude">>
                     /\ e.depth.v \in 1..49
                     /\ e.magnitude.v \in 81..96

C3_Witness ==
    /\ pc = "returned"
    /\ Len(events) = 2
    /\ \E a, b \in 1..2 : IsInvalidNoted(events[a]) /\ IsAnomalyNoted(events[b])

\* C4: in the returned list adjacent events are in order of their time string
\* (the empty string for an absent time), so that every event without a time
\* comes before every event with one.
C4_SortedByTime ==
    pc = "returned" =>
        LET evs == catalogue.events
            key(e) == IF "time" \in DOMAIN e THEN e.time.s ELSE <<>>
        IN /\ \A k \in 1..(Len(evs) - 1) : StrLeq(key(evs[k]), key(evs[k + 1]))
           /\ \A a, b \in 1..Len(evs) :
                ("time" \notin DOMAIN evs[a] /\ "time" \in DOMAIN evs[b]) => a < b

\* Two events returned in the opposite order to the one they were built in.
C4_Witness ==
    /\ pc = "returned"
    /\ Len(catalogue.events) = 2
    /\ IndexOf(catalogue.events[1]) = 1
    /\ "time" \in DOMAIN catalogue.events[1]
    /\ catalogue.events[1].time # catalogue.events[2].time

C4_WitnessAbsentFirst ==
    /\ pc = "returned"
    /\ Len(catalogue.events) = 2
    /\ IndexOf(catalogue.events[1]) = 1
    /\ "time" \notin DOMAIN catalogue.events[1]
    /\ "time" \in DOMAIN catalogue.events[2]

\* C5: magnitude_range.min and .max are the least and greatest magnitude among
\* the returned events whose magnitude is present and numeric, out-of-range and
\* anomaly values included; both are null when there is none.
C5_MagnitudeRange ==
    pc = "returned" =>
        LET evs == catalogue.events
            numeric == {k \in 1..Len(evs) :
                          "magnitude" \in DOMAIN evs[k] /\ evs[k].magnitude.tag = "num"}
            mr == catalogue.statistics.magnitude_range
        IN IF numeric = {}
           THEN mr.min = None /\ mr.max = None
           ELSE /\ mr.min.tag = "num" /\ mr.max.tag = "num"
                /\ \E k \in numeric : evs[k].magnitude.v = mr.min.v
                /\ \E k \in numeric : evs[k].magnitude.v = mr.max.v
                /\ \A k \in numeric : mr.min.v <= evs[k].magnitude.v /\ evs[k].magnitude.v <= mr.max.v

\* One event with a non-numeric magnitude beside one with an out-of-range one.
C5_Witness ==
    /\ pc = "returned"
    /\ \E a, b \in 1..Len(catalogue.events) :
          /\ Get(catalogue.events[a], "magnitude").tag \in {"str", "dict"}
          /\ Get(catalogue.events[b], "magnitude") = Num(115)
    /\ catalogue.statistics.magnitude_range = [min |-> Num(115), max |-> Num(115)]

C5_WitnessNull ==
    /\ pc = "returned"
    /\ cfg.num_events = 2
    /\ catalogue.statistics.magnitude_range = [min |-> None, max |-> None]

\* C6: the event as synthesized, before fault injection, has focal_mechanisms
\* exactly when its magnitude is at least 5.0, and then as a one-element list
\* with nodalPlane2 = {(strike1 + 180) mod 360, dip1, -rake1}.
C6_FocalMechanismIffLarge ==
    pc = "inject" =>
        /\ "focal_mechanisms" \in DOMAIN event <=> event.magnitude.v >= 50
        /\ "focal_mechanisms" \in DOMAIN event =>
             /\ Len(event.focal_mechanisms) = 1
             /\ LET p1 == event.focal_mechanisms[1].nodalPlane1
                    p2 == event.focal_mechanisms[1].nodalPlane2
                IN p2 = [strike |-> (p1.strike + 180) % 360, dip |-> p1.dip, rake |-> -p1.rake]

C6_Witness ==
    /\ pc = "inject"
    /\ event.magnitude = Num(50)
    /\ "focal_mechanisms" \in DOMAIN event
    /\ event.focal_mechanisms[1].nodalPlane1.strike = 360
    /\ event.focal_mechanisms[1].nodalPlane2.strike = 180

C6_WitnessSmall ==
    /\ pc = "inject"
    /\ event.magnitude.v < 50
    /\ "focal_mechanisms" \notin DOMAIN event

\* C7: whatever the regime tag, nodalPlane1.strike is in 0..359, and dip and
\* rake are in the regime's ranges.
C7_StrikeBelow360 ==
    pc = "focal_returned" =>
        LET p == mechanism.nodalPlane1
        IN /\ p.strike \in 0..359
           /\ region_type = "subduction" => p.dip \in 20..50 /\ p.rake \in 70..110
           /\ region_type = "strike_slip" =>
                p.dip \in 70..90 /\ (p.rake \in -20..20 \/ p.rake \in 160..200)
           /\ region_type \notin {"subduction", "strike_slip"} =>
                p.dip \in 40..70 /\ p.rake \in -110..-70

\* C10: the sampled origin offset of every synthesized event lies in the time
\* window, 0 <= offset <= end - start, so that its time string lies between
\* time_range.start and time_range.end.
C10_OffsetWithinWindow ==
    pc = "inject" =>
        /\ FLeq(Zero, event_time) /\ FLeq(event_time, time_range)
        /\ StrLeq(FormatSecondsZ(start), event.time.s)

\* Every field of `fields` is present in both events with the same value.
SameOn(before, after, fields) ==
    \A f \in fields : f \in DOMAIN before /\ f \in DOMAIN after /\ after[f] = before[f]

\* focal_mechanisms is present in both events with the same value, or in neither.
SameFocal(before, after) ==
    /\ "focal_mechanisms" \in DOMAIN after <=> "focal_mechanisms" \in DOMAIN before
    /\ "focal_mechanisms" \in DOMAIN before => after.focal_mechanisms = before.focal_mechanisms

\* C8: introduce_cross_field_anomaly keeps publicID, time, latitude, longitude
\* and focal_mechanisms as they were, keeps every required field present and
\* numeric, writes a depth in [0.1, 4.9] and a magnitude in [8.1, 9.6], and
\* sets the note "anomaly:shallow_large_magnitude".
C8_AnomalyFrame ==
    [][(pc = "injector_call" /\ pc' = "anomaly_returned") =>
          /\ DOMAIN event' = DOMAIN event \cup {"validation_note"}
          /\ SameOn(event, event', {"publicID", "time", "latitude", "longitude"})
          /\ SameFocal(event, event')
          /\ event'.depth.tag = "num" /\ event'.depth.v \in 1..49
          /\ event'.magnitude.tag = "num" /\ event'.magnitude.v \in 81..96
          /\ event'.validation_note = <<"anomaly", "shallow_large_magnitude">>]_vars

\* The anomaly applied to an event with a focal mechanism, at the top of both ranges.
C8_Witness ==
    /\ pc = "anomaly_returned"
    /\ "focal_mechanisms" \in DOMAIN event
    /\ event.depth = Num(49)
    /\ event.magnitude = Num(96)
    /\ event.time = Str(FormatMillisZ(event_datetime))

\* What one case of introduce_invalid_event may change between the event before
\* and the event after.
InvalidCaseFrame(before, after, case, wrong_typed) ==
    LET others(changed) == (RequiredFields \ changed)
        kept(changed) ==
            /\ DOMAIN after = DOMAIN before \cup {"validation_note"}
            /\ SameOn(before, after, others(changed))
            /\ SameFocal(before, after)
        removed(f) ==
            /\ DOMAIN after = (DOMAIN before \ {f}) \cup {"validation_note"}
            /\ SameOn(before, after, others({f}))
            /\ SameFocal(before, after)
    IN CASE case = "missing_time" -> removed("time")
         [] case = "missing_latitude" -> removed("latitude")
         [] case = "missing_longitude" -> removed("longitude")
         [] case = "missing_magnitude" -> removed("magnitude")
         [] case = "out_of_range_coords" ->
               /\ kept({"latitude", "longitude"})
               /\ after.latitude \in {Num(950000), Num(-950000), Num(1200000)}
               /\ after.longitude \in {Num(1900000), Num(-1900000), Num(2500000)}
         [] case = "out_of_range_magnitude" ->
               /\ kept({"magnitude"})
               /\ after.magnitude \in {Num(115), Num(-40), Num(120)}
         [] case = "out_of_range_depth" ->
               /\ kept({"depth"})
               /\ after.depth \in {Num(-100), Num(-500), Num(15000)}
         [] case = "invalid_timestamp" ->
               /\ kept({"time"})
               /\ after.time.tag = "str"
               /\ after.time # before.time
         [] case = "future_timestamp" ->
               /\ kept({"time"})
               /\ after.time.tag = "str"
               /\ StrLess(before.time.s, after.time.s)
         [] case = "invalid_types" ->
               \E f \in {"latitude", "longitude", "magnitude", "depth", "time"} :
                  /\ kept({f})
                  /\ after[f] \in {Str(Chars(<<"i", "n", "v", "a", "l", "i", "d">>)),
                                   Str(Chars(<<"N", "a", "N">>)), Dict}
                  /\ after[f] # before[f]
                  /\ IF wrong_typed THEN after[f].tag # before[f].tag
                     ELSE after[f].tag # before[f].tag \/ (f = "time" /\ after[f].tag = "str")
         [] OTHER -> FALSE

\* C9 as claimed: introduce_invalid_event picks one of the ten cases, sets the
\* note "invalid:<case>" and changes only what that case names: a missing_*
\* case removes its field, out_of_range_coords sets latitude and longitude
\* together to the listed values, out_of_range_magnitude and out_of_range_depth
\* set theirs, invalid_timestamp and future_timestamp change only time, and
\* invalid_types overwrites exactly one of the five fields with a placeholder
\* of a type other than the field's.
C9_InvalidFrameWrongTyped ==
    [][(pc = "injector_call" /\ pc' = "invalid_returned") =>
          /\ "validation_note" \in DOMAIN event'
          /\ event'.validation_note[1] = "invalid"
          /\ event'.validation_note[2] \in Range(INVALID_CASES)
          /\ InvalidCaseFrame(event, event', event'.validation_note[2], TRUE)]_vars

\* C9 as amended: the same, except that the placeholder invalid_types writes
\* is one of "invalid", "NaN" and {"bad": True}, of a type other than the
\* field's unless the field is time and the placeholder one of the two
\* strings, which leaves time a str.
C9_InvalidFrame ==
    [][(pc = "injector_call" /\ pc' = "invalid_returned") =>
          /\ "validation_note" \in DOMAIN event'
          /\ event'.validation_note[1] = "invalid"
          /\ event'.validation_note[2] \in Range(INVALID_CASES)
          /\ InvalidCaseFrame(event, event', event'.validation_note[2], FALSE)]_vars

\* invalid_types applied to time with the placeholder "invalid": the field is
\* overwritten and still a str.
C9_Witness ==
    /\ pc = "invalid_returned"
    /\ event.validation_note = <<"invalid", "invalid_types">>
    /\ event.time = Str(Chars(<<"i", "n", "v", "a", "l", "i", "d">>))
    /\ event.latitude.tag = "num"

\* out_of_range_coords applied to an event with a focal mechanism.
C9_WitnessCoords ==
    /\ pc = "invalid_returned"
    /\ event.validation_note = <<"invalid", "out_of_range_coords">>
    /\ event.latitude = Num(1200000)
    /\ event.longitude = Num(-1900000)
    /\ "focal_mechanisms" \in DOMAIN event

C9_WitnessTypes ==
    /\ pc = "invalid_returned"
    /\ event.validation_note = <<"invalid", "invalid_types">>
    /\ event.time = Dict

=============================================================================
